---- MODULE Spec2Model ----
(***************************************************************************)
(* False-position solver of src/app.py: the run_btn handler (bracket       *)
(* check, automatic bracket search, iteration loop, final answer) and      *)
(* find_valid_bracket.                                                     *)
(*                                                                         *)
(* Numbers.  The program computes in binary floating point: every result   *)
(* is rounded to the nearest representable number.  The model keeps that:  *)
(* a number is an integer count of units of 1/Scale, sums and products of  *)
(* representable numbers are exact, and a quotient is rounded to the       *)
(* nearest unit (FlDiv).  Magnitudes stay far below overflow, so           *)
(* inf and nan do not arise.                                               *)
(*                                                                         *)
(* Functions.  f_num is drawn from a family of expressions that lambdify   *)
(* turns into plain Python arithmetic (a constant, x - c, c - x,           *)
(* x**2/8 - c, (x + Abs(x))/2 - c, 4*x - c, -2*x**3 - 3*x**2 + c), so a    *)
(* division by zero raises ZeroDivisionError, which the handler's except   *)
(* clause reports as a Math Error.                                         *)
(***************************************************************************)
EXTENDS Integers, Sequences, FiniteSets

VARIABLES
    f,          \* f_num: the function under analysis (a descriptor)
    a0, b0,     \* a_in, b_in: the bounds typed by the user
    tol,        \* tol
    pc,         \* position of the handler
    a, b,       \* current bracket
    n,          \* find_valid_bracket: loop passes done
    searched,   \* the handler called find_valid_bracket
    is_valid,   \* is_valid
    i,          \* loop index
    z, fz,      \* last estimate and residual (0 before the first iteration)
    z_old,      \* z_old
    data,       \* data: the iteration records
    report      \* what the page shows at the end

vars == <<f, a0, b0, tol, pc, a, b, n, searched, is_valid, i, z, fz, z_old, data, report>>

----------------------------------------------------------------------------
\* Bounds of the model

Scale == 4
MaxBound == 4
MaxTol == 2

\* Program constants

search_range == 2
MaxAttempts == 50
MaxIter == 20

----------------------------------------------------------------------------
\* Arithmetic

Abs(x) == IF x < 0 THEN -x ELSE x

Min(x, y) == IF x < y THEN x ELSE y

Max(x, y) == IF x < y THEN y ELSE x

\* Python's float division num / den, den # 0: the quotient rounded to the
\* nearest representable number (here: unit, halves away from zero).  Floating
\* point is dense near zero, so a nonzero quotient is never rounded to zero: it
\* is at least one unit in magnitude.
FlDiv(num, den) ==
    LET sn == IF (num < 0) = (den < 0) THEN 1 ELSE -1
        an == Abs(num)
        ad == Abs(den)
        q  == (2 * an + ad) \div (2 * ad)
    IN  IF an = 0 THEN 0 ELSE sn * Max(q, 1)

\* the user's inputs: bounds on a grid of half units, tolerances, functions
Bounds == { k * (Scale \div 2) : k \in (-MaxBound)..MaxBound }

Tols == 1..MaxTol

Functions ==
    [kind : {"const"}, c : {0, Scale}]
    \cup [kind : {"lin"}, c : {1, 3 * Scale, 99 * Scale, 100 * Scale}]
    \cup [kind : {"neglin"}, c : {3 * Scale + 1}]
    \cup [kind : {"quad"}, c : {1, Scale \div 2}]
    \cup [kind : {"ramp"}, c : {Scale, Scale + 1}]
    \cup [kind : {"steep"}, c : {1, 2 * Scale + 1}]
    \cup [kind : {"cubic"}, c : {2 * Scale}]

\* f_num(x): the lambdified expression, its value rounded to a unit
F(g, x) ==
    CASE g.kind = "const"  -> g.c
      [] g.kind = "lin"    -> x - g.c
      [] g.kind = "neglin" -> g.c - x
      [] g.kind = "quad"   -> FlDiv(x * x, 8 * Scale) - g.c
      [] g.kind = "ramp"   -> FlDiv(x + Abs(x), 2) - g.c
      [] g.kind = "steep"  -> 4 * x - g.c
      [] g.kind = "cubic"  -> FlDiv(-2 * x * x * x - 3 * Scale * x * x, Scale * Scale) + g.c

----------------------------------------------------------------------------
\* The tests and formulas of the handler

\* faulty variant: the test written with > instead of >=
NoSignChangeStrict(fa, fb) == fa * fb > 0

\* line 94: f_num(a) * f_num(b) >= 0
NoSignChange(fa, fb) == fa * fb >= 0

\* line 62: f(a) * f(b) < 0
SignChange(fa, fb) == fa * fb < 0

\* lines 64-65: a -= search_range; b += search_range
WidenLow(x) == x - search_range * Scale

WidenHigh(x) == x + search_range * Scale

\* faulty variant: one pass more
AttemptsPlusOne == MaxAttempts + 1

\* line 61: for _ in range(50)
Attempts == MaxAttempts

\* faulty variant: the gate ignores is_valid
LoopEnteredAlways(valid) == TRUE

\* line 103: if is_valid
LoopEntered(valid) == valid

\* faulty variant: the numerator written with + instead of -
FalsePositionPlus(lo, hi, fa, fb) == FlDiv(lo * fb + hi * fa, fb - fa)

\* line 109: z = (a * fb - b * fa) / (fb - fa), fb # fa
FalsePosition(lo, hi, fa, fb) == FlDiv(lo * fb - hi * fa, fb - fa)

\* line 111: err = abs((z - z_old)/z)*100 if i > 1 else 100, z # 0 when i > 1
RelError(k, zn, zo) ==
    IF k > 1 THEN FlDiv(Abs(zn - zo) * 100 * Scale, Abs(zn)) ELSE 100 * Scale

\* line 116: abs(fz) < tol
Converged(r, t) == Abs(r) < t

\* line 117: f_num(a) * fz < 0
ReplaceHigh(fa, r) == fa * r < 0

\* faulty variant: the two branches exchanged
NextBracketSwapped(lo, hi, zn, r) ==
    IF ReplaceHigh(F(f, lo), r) THEN <<zn, hi>> ELSE <<lo, zn>>

\* faulty variant: a is replaced first and the sign test reads f at the new a
NextBracketStale(lo, hi, zn, r) ==
    IF ReplaceHigh(F(f, zn), r) THEN <<lo, zn>> ELSE <<zn, hi>>

\* lines 117-118: the bracket after the update
NextBracket(lo, hi, zn, r) ==
    IF ReplaceHigh(F(f, lo), r) THEN <<lo, zn>> ELSE <<zn, hi>>

\* line 107: for i in range(1, 21)
LastIter == MaxIter

NoReport == [kind |-> "none"]

----------------------------------------------------------------------------
\* State machine

Init ==
    /\ f \in Functions
    /\ a0 \in Bounds
    /\ b0 \in Bounds
    /\ a0 # b0
    /\ tol \in Tols
    /\ pc = "check"
    /\ a = a0
    /\ b = b0
    /\ n = 0
    /\ searched = FALSE
    /\ is_valid = TRUE
    /\ i = 0
    /\ z = 0
    /\ fz = 0
    /\ z_old = 0
    /\ data = << >>
    /\ report = NoReport

\* lines 92-94: the handler tests the user's bracket
CheckBracket ==
    /\ pc = "check"
    /\ IF NoSignChange(F(f, a), F(f, b))
       THEN /\ pc' = "search"
            /\ searched' = TRUE
            /\ i' = i
       ELSE /\ pc' = "loop"
            /\ searched' = FALSE
            /\ i' = 1
    /\ UNCHANGED <<f, a0, b0, tol, a, b, n, is_valid, z, fz, z_old, data, report>>

\* lines 61-65 and 96-101: one pass of find_valid_bracket's loop
SearchStep ==
    /\ pc = "search"
    /\ n < Attempts
    /\ IF SignChange(F(f, a), F(f, b))
       THEN /\ pc' = "loop"
            /\ i' = 1
            /\ UNCHANGED <<a, b, n>>
       ELSE /\ a' = WidenLow(a)
            /\ b' = WidenHigh(b)
            /\ n' = n + 1
            /\ UNCHANGED <<pc, i>>
    /\ UNCHANGED <<f, a0, b0, tol, searched, is_valid, z, fz, z_old, data, report>>

\* lines 66 and 97-99, 103: the loop ran out; found is False
SearchExhausted ==
    /\ pc = "search"
    /\ n = Attempts
    /\ is_valid' = FALSE
    /\ IF LoopEntered(is_valid')
       THEN /\ pc' = "loop"
            /\ i' = 1
            /\ report' = report
       ELSE /\ pc' = "failed"
            /\ i' = i
            /\ report' = [kind |-> "search_failed"]
    /\ UNCHANGED <<f, a0, b0, tol, a, b, n, searched, z, fz, z_old, data>>

MathError(what) == [kind |-> "math_error", error |-> what]

\* lines 107-119: one iteration of the false-position loop
IterStep ==
    /\ pc = "loop"
    /\ LET fa == F(f, a)
           fb == F(f, b)
       IN  IF fb = fa
           THEN \* line 109 raises ZeroDivisionError, caught at line 166
                /\ pc' = "error"
                /\ report' = MathError("fb - fa = 0")
                /\ UNCHANGED <<a, b, i, z, fz, z_old, data>>
           ELSE LET zn == FalsePosition(a, b, fa, fb)
                    r  == F(f, zn)
                IN  IF i > 1 /\ zn = 0
                    THEN \* line 111 raises ZeroDivisionError, caught at line 166
                         /\ pc' = "error"
                         /\ report' = MathError("z = 0")
                         /\ z' = zn
                         /\ fz' = r
                         /\ UNCHANGED <<a, b, i, z_old, data>>
                    ELSE /\ z' = zn
                         /\ fz' = r
                         /\ data' = Append(data,
                                [Iter |-> i, a |-> a, b |-> b, fa |-> fa, fb |-> fb,
                                 z |-> zn, fz |-> r, err |-> RelError(i, zn, z_old)])
                         /\ report' = report
                         /\ IF Converged(r, tol)
                            THEN /\ pc' = "final"
                                 /\ UNCHANGED <<a, b, i, z_old>>
                            ELSE /\ a' = NextBracket(a, b, zn, r)[1]
                                 /\ b' = NextBracket(a, b, zn, r)[2]
                                 /\ z_old' = zn
                                 /\ IF i = LastIter
                                    THEN /\ pc' = "final"
                                         /\ i' = i
                                    ELSE /\ pc' = "loop"
                                         /\ i' = i + 1
    /\ UNCHANGED <<f, a0, b0, tol, n, searched, is_valid>>

\* lines 153-164: the final answer block
FinalAnswer ==
    /\ pc = "final"
    /\ pc' = "done"
    /\ report' = [kind |-> "final", z |-> z, iters |-> Len(data), residual |-> fz,
                  wording |-> "Converged"]
    /\ UNCHANGED <<f, a0, b0, tol, a, b, n, searched, is_valid, i, z, fz, z_old, data>>

Next ==
    \/ CheckBracket
    \/ SearchStep
    \/ SearchExhausted
    \/ IterStep
    \/ FinalAnswer

Spec == Init /\ [][Next]_vars

----------------------------------------------------------------------------
\* Vocabulary of the properties

Terminal == pc \in {"done", "failed", "error"}

\* the search returned (found or not)
SearchOver == searched /\ pc # "search"

\* the loop was entered and left
LoopLeft == pc \in {"final", "done", "error"}

Width(r) == Abs(r.b - r.a)

\* f has opposite signs at the user's bracket widened k times
SignChangeAt(k) ==
    SignChange(F(f, a0 - k * search_range * Scale), F(f, b0 + k * search_range * Scale))

\* the bracket the loop started from
StartBracket == IF data = << >> THEN <<a, b>> ELSE <<data[1].a, data[1].b>>

----------------------------------------------------------------------------
\* C1: bracket invariant.  In every iteration record f(lowBound) * f(highBound) < 0,
\* for the recorded values and for f at the recorded bounds, and the bracket the
\* next iteration starts from has the sign change too, whether the first bracket
\* was the user's or a repaired one.
C1_BracketInvariant ==
    /\ \A k \in 1..Len(data) :
          /\ data[k].fa * data[k].fb < 0
          /\ F(f, data[k].a) * F(f, data[k].b) < 0
    /\ pc = "loop" => F(f, a) * F(f, b) < 0

C1_Witness ==
    /\ searched
    /\ Len(data) >= 3
    /\ data[3].a # data[1].a

C9_UpdateReplacesOneBound ==
    \A k \in 1..(Len(data) - 1) :
        IF data[k].fa * data[k].fz < 0
        THEN data[k + 1].b = data[k].z /\ data[k + 1].a = data[k].a
        ELSE data[k + 1].a = data[k].z /\ data[k + 1].b = data[k].b

C9_Witness ==
    /\ Len(data) >= 3
    /\ \E k \in 1..(Len(data) - 1) :
          data[k].fa * data[k].fz < 0 /\ data[k + 1].b # data[k].b
    /\ \E k \in 1..(Len(data) - 1) :
          data[k].fa * data[k].fz >= 0 /\ data[k + 1].a # data[k].a

\* C6: bracket-search failure is terminal.  Once the search has used all its
\* passes the handler is in the failed state, reports the search failure and no
\* estimate, holds no record, never entered the loop, and takes no further step.
C6_SearchFailureTerminal ==
    (SearchOver /\ n = MaxAttempts) =>
        /\ pc = "failed"
        /\ ~is_valid
        /\ data = << >>
        /\ i = 0
        /\ report = [kind |-> "search_failed"]
        /\ ~ENABLED Next

C6_Witness == pc = "failed" /\ n = MaxAttempts /\ f.kind # "const"

\* C5 (as amended): bracket repair.  When f(a0) * f(b0) >= 0 the search makes up
\* to 50 tests, the first on the user's bracket and each later one after a
\* widening by 2.0 per side, so it succeeds exactly when some k in 1..49 has
\* f(a0 - 2k) * f(b0 + 2k) < 0; the loop then starts from that bracket for the
\* smallest such k.  On failure the bracket has been widened 50 times, the last
\* of them untested.
C5_RepairTests49Widenings ==
    SearchOver =>
        /\ is_valid <=> \E k \in 1..(MaxAttempts - 1) : SignChangeAt(k)
        /\ is_valid =>
              /\ n \in 1..(MaxAttempts - 1)
              /\ SignChangeAt(n)
              /\ \A k \in 0..(n - 1) : ~SignChangeAt(k)
              /\ StartBracket = <<a0 - n * search_range * Scale,
                                  b0 + n * search_range * Scale>>
        /\ ~is_valid =>
              /\ a = a0 - MaxAttempts * search_range * Scale
              /\ b = b0 + MaxAttempts * search_range * Scale

C5_Witness ==
    /\ SearchOver
    /\ is_valid
    /\ n = MaxAttempts - 1
    /\ pc = "done"

\* C5 (as stated): the search succeeds exactly when some k in 1..50 has
\* f(a0 - 2k) * f(b0 + 2k) < 0.
C5_RepairTests50Widenings ==
    SearchOver => (is_valid <=> \E k \in 1..MaxAttempts : SignChangeAt(k))

\* C4 (as amended): equal function values at the bounds.  When f(lowBound) =
\* f(highBound) the product is >= 0, so the handler goes to the bracket search:
\* the run ends in the search failure (always so for a constant function) or
\* iterates from the repaired bracket, and the interpolation never divides by
\* fb - fa = 0.
C4_EqualValuesGoToSearch ==
    (F(f, a0) = F(f, b0) /\ pc # "check") =>
        /\ searched
        /\ report # MathError("fb - fa = 0")
        /\ (f.kind = "const" /\ Terminal) => pc = "failed"
        /\ \A k \in 1..Len(data) : data[k].fa # data[k].fb

C4_Witness ==
    /\ F(f, a0) = F(f, b0)
    /\ f.kind # "const"
    /\ pc = "done"
    /\ Len(data) >= 2

\* C4 (as stated): a run whose bracket has f(lowBound) = f(highBound) ends in
\* the degenerate-bracket error (the division by fb - fa = 0).
C4_EqualValuesRaiseDegenerate ==
    (F(f, a0) = F(f, b0) /\ Terminal) => report = MathError("fb - fa = 0")

\* C7: non-convergence is flagged.  A run that used all 20 iterations without
\* |f(z)| < tolerance is not reported as converged.
C7_CapExhaustedIsFlagged ==
    (pc = "done" /\ Len(data) = MaxIter /\ ~Converged(fz, tol)) =>
        report.wording # "Converged"

\* C8: estimate inside the bracket.  In every record z lies strictly between
\* lowBound and highBound.
C8_EstimateStrictlyInside ==
    \A k \in 1..Len(data) :
        /\ Min(data[k].a, data[k].b) < data[k].z
        /\ data[k].z < Max(data[k].a, data[k].b)

\* C2: termination.  At most 50 search passes and 20 iterations, never more than
\* 20 records, indices 1, 2, ..., n in order, and the run goes on until it is in
\* one of the terminal states: tolerance met or cap exhausted (the final
\* answer), or bracket search failed.
C2_TerminatesInNamedStates ==
    /\ n <= MaxAttempts
    /\ i <= MaxIter
    /\ Len(data) <= MaxIter
    /\ \A k \in 1..Len(data) : data[k].Iter = k
    /\ \/ pc = "done" /\ (Converged(fz, tol) \/ Len(data) = MaxIter)
       \/ pc = "failed"
       \/ ENABLED Next

\* C10: stop at the first tolerance hit.  Once the loop is left: every record but
\* the last has |f(z)| >= tolerance, the reported z is the z of the last record,
\* and with fewer than 20 records the last one has |f(z)| < tolerance (nothing
\* but the tolerance test and the cap ends the loop).
C10_StopsOnlyOnTolerance ==
    LoopLeft =>
        /\ data # << >>
        /\ \A k \in 1..(Len(data) - 1) : ~Converged(data[k].fz, tol)
        /\ z = data[Len(data)].z
        /\ Len(data) < MaxIter => Converged(data[Len(data)].fz, tol)

====
